---------------------------- MODULE Spec2Model ----------------------------
(***************************************************************************)
(* Model of the two SSURGO QA geoprocessing tools:                         *)
(*   QA_SliverFinder.py   - flags vertex triples whose interior angle is   *)
(*                          at or below minAngle                           *)
(*   QA_VertexProblems.py - flags boundary segments shorter than minDist   *)
(*                          and writes one statistics row per polygon      *)
(* One run of one tool is one behaviour: the main block resolves the       *)
(* working spatial reference, ProcessLayer scans the rows delivered by the *)
(* search cursor one at a time and then writes the sinks.                  *)
(*                                                                         *)
(* Numbers.  Coordinates are integers.  A Euclidean length sqrt(d) is      *)
(* carried as <<"r", d>>, a plain number n as <<"n", n>>; a quotient a/b   *)
(* that the code computes in floating point is carried as the pair         *)
(* [num |-> a, den |-> b].  Text that the code edits (unit names) is a     *)
(* sequence of one-character strings.                                      *)
(***************************************************************************)
EXTENDS Integers, Sequences, FiniteSets, TLC

VARIABLES
    tool,          \* which script runs: "sliver" or "vertex"
    pc,            \* position of the run
    inputSR,       \* desc.spatialReference of the input layer
    paramSR,       \* arcpy.GetParameter(2), the requested output reference
    outputSR,      \* the script's outputSR variable
    outputDatum,   \* the script's outputDatum variable
    theUnits,      \* global theUnits
    unitAbbrev,    \* global unitAbbrev
    minAngle,      \* arcpy.GetParameter(1) of the sliver tool
    minDist,       \* arcpy.GetParameter(1) of the segment tool
    outLayer,      \* arcpy.GetParameterAsText(3) of the segment tool
    msgs,          \* what AddMsgAndPrint was called with, in order
    iSelection,    \* number of features of the input layer
    rows,          \* the rows the search cursor has delivered so far
    srUsed,        \* spatial reference ProcessLayer was called with (<<>> = not called)
    bProcessed,    \* "none" until ProcessLayer returns, then "True" / "False"
    \* ---- QA_SliverFinder.ProcessLayer locals
    iErr, dLines, dTest, badPolys, dAngles, angleCalls,
    lineSink, pointSink, wr,
    \* ---- QA_VertexProblems.ProcessLayer locals
    statsTbl, iCnt, dPoints, bHasMultiPart, iPnts, iSeg, iPartCnt, statBound,
    outRow, segCalls, statsSink, flagSink,
    \* ---- GetAngleFromPoints called along one point list, both ways
    pntListArg,    \* the point list handed to GetAngleFromPoints
    angles,        \* its results for iPnt = 0, 1, ... on pntListArg
    anglesRev      \* its results on pntListArg read last to first

vars == << tool, pc, inputSR, paramSR, outputSR, outputDatum, theUnits,
           unitAbbrev, minAngle, minDist, outLayer, msgs, iSelection, rows,
           srUsed, bProcessed, iErr, dLines, dTest, badPolys, dAngles, angleCalls,
           lineSink, pointSink, wr, statsTbl, iCnt, dPoints, bHasMultiPart,
           iPnts, iSeg, iPartCnt, statBound, outRow, segCalls, statsSink,
           flagSink, pntListArg, angles, anglesRev >>

mainVars  == << inputSR, paramSR, outputSR, outputDatum, theUnits, unitAbbrev,
                minAngle, minDist, outLayer, iSelection >>
sliverVars == << iErr, dLines, dTest, badPolys, dAngles, angleCalls,
                 lineSink, pointSink, wr >>
vertexVars == << statsTbl, iCnt, dPoints, bHasMultiPart, iPnts, iSeg,
                 iPartCnt, statBound, outRow, segCalls, statsSink, flagSink >>
angleVars == << pntListArg, angles, anglesRev >>

-----------------------------------------------------------------------------
(* Bounds of the model *)

\* most features of the input layer in the runs that vary the geometry
MaxPolys == 2

\* most features of the input layer in the runs that vary the references
MainMaxPolys == 1

\* largest coordinate of the points GetAngleFromPoints is tried on
MaxCoord == 3

-----------------------------------------------------------------------------
(* Text: str.lower, str.replace, str.startswith on character sequences *)

UpperCase == << "A","B","C","D","E","F","G","H","I","J","K","L","M",
                "N","O","P","Q","R","S","T","U","V","W","X","Y","Z" >>
LowerCase == << "a","b","c","d","e","f","g","h","i","j","k","l","m",
                "n","o","p","q","r","s","t","u","v","w","x","y","z" >>

LowerChar(c) ==
    IF \E i \in DOMAIN UpperCase : UpperCase[i] = c
    THEN LowerCase[CHOOSE i \in DOMAIN UpperCase : UpperCase[i] = c]
    ELSE c

Lower(s) == [i \in DOMAIN s |-> LowerChar(s[i])]

StartsWith(s, p) == Len(s) >= Len(p) /\ SubSeq(s, 1, Len(p)) = p

RECURSIVE Replace(_, _, _)
Replace(s, old, new) ==
    IF Len(s) < Len(old) THEN s
    ELSE IF SubSeq(s, 1, Len(old)) = old
         THEN new \o Replace(SubSeq(s, Len(old) + 1, Len(s)), old, new)
         ELSE << Head(s) >> \o Replace(Tail(s), old, new)

sFoot   == << "f","o","o","t" >>
sFeet   == << "f","e","e","t" >>
sMeter  == << "m","e","t","e","r" >>
sMeters == << "m","e","t","e","r","s" >>
sFeetUS == << "f","e","e","t","_","u","s" >>

-----------------------------------------------------------------------------
(* Spatial references, as the Spatial Reference Provider describes them:   *)
(* name, type, GCS.datumName, linearUnitName                               *)

NAD83 == "D_North_American_1983"
NAD27 == "D_North_American_1927"
WGS84 == "D_WGS_1984"

\* an empty SpatialReference parameter: nothing was requested
NoSR == [name |-> "", type |-> "Unknown", datum |-> "", unit |-> << >>]
GCS_NAD83 == [name |-> "GCS_North_American_1983", type |-> "Geographic",
              datum |-> NAD83, unit |-> << >>]
GCS_WGS84 == [name |-> "GCS_WGS_1984", type |-> "Geographic",
              datum |-> WGS84, unit |-> << >>]
GCS_NAD27 == [name |-> "GCS_North_American_1927", type |-> "Geographic",
              datum |-> NAD27, unit |-> << >>]
UTM_NAD83 == [name |-> "NAD_1983_UTM_Zone_15N", type |-> "Projected",
              datum |-> NAD83, unit |-> << "M","e","t","e","r" >>]
UTM_NAD27 == [name |-> "NAD_1927_UTM_Zone_15N", type |-> "Projected",
              datum |-> NAD27, unit |-> << "M","e","t","e","r" >>]
SPCS_NAD83_FT == [name |-> "NAD_1983_StatePlane_Iowa_North_FIPS_1401_Feet",
                  type |-> "Projected", datum |-> NAD83,
                  unit |-> << "F","o","o","t","_","U","S" >>]

SPCS_NAD83_IFT == [name |-> "NAD_1983_StatePlane_Michigan_South_FIPS_2113_IntlFeet",
                   type |-> "Projected", datum |-> NAD83,
                   unit |-> << "F","o","o","t" >>]

\* arcpy.SpatialReference(3857), WGS_1984_Web_Mercator_Auxiliary_Sphere
CreateWebMercaturSR ==
    [name |-> "WGS_1984_Web_Mercator_Auxiliary_Sphere", type |-> "Projected",
     datum |-> WGS84, unit |-> << "M","e","t","e","r" >>]

Upper(t) == IF t = "Projected" THEN "PROJECTED"
            ELSE IF t = "Geographic" THEN "GEOGRAPHIC" ELSE "UNKNOWN"

InputSRs == { GCS_NAD83, GCS_NAD27, GCS_WGS84, UTM_NAD83, SPCS_NAD83_FT,
              SPCS_NAD83_IFT }
ParamSRs == { NoSR, GCS_NAD83, UTM_NAD83, UTM_NAD27 }

AllowedDatums == { NAD83, WGS84 }

-----------------------------------------------------------------------------
(* Geometry delivered by the search cursor.  A point is <<x, y>>; the null *)
(* point that separates the outer ring from an interior ring is << >>.     *)
(* A geometry is [isNone, parts]: isNone is SHAPE@ = None, parts the       *)
(* sequence of parts, each a sequence of points.                           *)

NullPnt == << >>
None == << >>
Some(n) == << n >>

\* axis-aligned square of side 10
Square10 == << <<0,0>>, <<10,0>>, <<10,10>>, <<0,10>>, <<0,0>> >>
\* triangle with a 14 degree corner at (0,0) and a side of length 1
SliverTri == << <<0,0>>, <<4,0>>, <<4,1>>, <<0,0>> >>
\* 3-4-5 triangle followed by an interior ring
HoleRing == << <<0,0>>, <<4,0>>, <<0,3>>, <<0,0>>, NullPnt,
               <<1,1>>, <<2,1>>, <<1,2>>, <<1,1>> >>
\* two distinct vertices and the closing vertex
TwoVertex == << <<0,0>>, <<4,0>>, <<0,0>> >>
\* a ring that repeats its first vertex
DupVertex == << <<0,0>>, <<0,0>>, <<4,0>>, <<4,4>>, <<0,0>> >>
\* a part with a single vertex
OnePoint == << <<2,2>> >>
\* a flat ring out to x = 2000000 and back
LongSpike == << <<0,0>>, <<2000000,0>>, <<0,0>> >>
\* second part of the multipart polygons
Square2 == << <<0,2>>, <<2,2>>, <<2,4>>, <<0,4>>, <<0,2>> >>

Geom(parts) == [isNone |-> FALSE, parts |-> parts]
NoGeom == [isNone |-> TRUE, parts |-> << >>]

\* what one cursor row can carry besides its id: SHAPE@, SHAPE@AREA, SHAPE@LENGTH
Shapes ==
    { [feat |-> NoGeom,                        area |-> None,      perimeter |-> None],
      [feat |-> NoGeom,                        area |-> Some(0),   perimeter |-> Some(0)],
      [feat |-> Geom(<< >>),                   area |-> Some(0),   perimeter |-> Some(0)],
      [feat |-> Geom(<< Square10 >>),          area |-> Some(100), perimeter |-> Some(40)],
      [feat |-> Geom(<< SliverTri >>),         area |-> Some(2),   perimeter |-> Some(9)],
      [feat |-> Geom(<< HoleRing >>),          area |-> Some(5),   perimeter |-> Some(15)],
      [feat |-> Geom(<< TwoVertex >>),         area |-> Some(0),   perimeter |-> Some(8)],
      [feat |-> Geom(<< DupVertex >>),         area |-> Some(8),   perimeter |-> Some(14)],
      [feat |-> Geom(<< OnePoint >>),          area |-> Some(0),   perimeter |-> Some(0)],
      [feat |-> Geom(<< SliverTri, Square2 >>), area |-> Some(6),  perimeter |-> Some(17)],
      [feat |-> Geom(<< HoleRing, Square2 >>), area |-> Some(9),   perimeter |-> Some(23)] }

\* a shape whose every segment is longer than 1000000 working units; only
\* the segment tool, which measures axis-aligned lengths exactly, reads it
LongShapes ==
    { [feat |-> Geom(<< LongSpike >>), area |-> Some(0), perimeter |-> Some(4000000)] }

\* OID@ of the i-th delivered row
FidOf(i) == 100 + i

partCount(feat) == Len(feat.parts)

RECURSIVE CountPoints(_)
CountPoints(parts) ==
    IF parts = << >> THEN 0
    ELSE Cardinality({i \in DOMAIN Head(parts) : Head(parts)[i] # NullPnt})
         + CountPoints(Tail(parts))

pointCount(feat) == CountPoints(feat.parts)

MinAngles == { 0 - 1, 0, 14, 90 }
MinDists == { 5, 10, 11 }
OutLayers == { "", "QA_VertexFlags" }

-----------------------------------------------------------------------------
(* Python dict (insertion ordered) as a sequence of <<key, value>> pairs *)

DictKeys(d) == [i \in DOMAIN d |-> d[i][1]]
DictHas(d, k) == \E i \in DOMAIN d : d[i][1] = k
DictGet(d, k) == d[CHOOSE i \in DOMAIN d : d[i][1] = k][2]
DictSet(d, k, v) ==
    IF DictHas(d, k)
    THEN [i \in DOMAIN d |-> IF d[i][1] = k THEN << k, v >> ELSE d[i]]
    ELSE Append(d, << k, v >>)

\* the dictionary read in insertion order, with no sort
SortedByValue_unsorted(items) == items

\* sorted(items, key=lambda x: x[1]): stable, ascending by value
RECURSIVE InsertByValue(_, _)
InsertByValue(x, s) ==
    IF s = << >> THEN << x >>
    ELSE IF x[2] < Head(s)[2] THEN << x >> \o s
         ELSE << Head(s) >> \o InsertByValue(x, Tail(s))

RECURSIVE SortedByValue(_)
SortedByValue(items) ==
    IF items = << >> THEN << >>
    ELSE InsertByValue(items[Len(items)],
                       SortedByValue(SubSeq(items, 1, Len(items) - 1)))

-----------------------------------------------------------------------------
(* QA_SliverFinder.GetAngleFromPoints                                      *)
(* The law-of-cosines value p = (a + b - c) / (2 sqrt(a) sqrt(b)), with    *)
(* a, b, c the squared side lengths, is located between the cosines of the *)
(* half-degree marks, CosHalf[k+1] = floor(10^4 cos(k + 1/2 degrees)), by  *)
(* comparing (a+b-c)^2 * 10^8 with 4ab * CosHalf^2 in two-limb arithmetic. *)
(* For integer coordinates in 0..4 and for the shapes above the result is  *)
(* the integer int(round(degrees(acos(p)))) the Python code returns.       *)

CosScale == 100 * 100

CosHalf == <<
     9999, 9996, 9990, 9981, 9969, 9953, 9935, 9914, 9890, 9862,
     9832, 9799, 9762, 9723, 9681, 9636, 9588, 9537, 9483, 9426,
     9366, 9304, 9238, 9170, 9099, 9025, 8949, 8870, 8788, 8703,
     8616, 8526, 8433, 8338, 8241, 8141, 8038, 7933, 7826, 7716,
     7604, 7489, 7372, 7253, 7132, 7009, 6883, 6755, 6626, 6494,
     6360, 6225, 6087, 5948, 5807, 5664, 5519, 5372, 5224, 5075,
     4924, 4771, 4617, 4461, 4305, 4146, 3987, 3826, 3665, 3502,
     3338, 3173, 3007, 2840, 2672, 2503, 2334, 2164, 1993, 1822,
     1650, 1478, 1305, 1132, 958, 784, 610, 436, 261, 87,
     -88, -262, -437, -611, -785, -959, -1133, -1306, -1479, -1651,
     -1823, -1994, -2165, -2335, -2504, -2673, -2841, -3008, -3174, -3339,
     -3503, -3666, -3827, -3988, -4147, -4306, -4462, -4618, -4772, -4925,
     -5076, -5225, -5373, -5520, -5665, -5808, -5949, -6088, -6226, -6361,
     -6495, -6627, -6756, -6884, -7010, -7133, -7254, -7373, -7490, -7605,
     -7717, -7827, -7934, -8039, -8142, -8242, -8339, -8434, -8527, -8617,
     -8704, -8789, -8871, -8950, -9026, -9100, -9171, -9239, -9305, -9367,
     -9427, -9484, -9538, -9589, -9637, -9682, -9724, -9763, -9800, -9833,
     -9863, -9891, -9915, -9936, -9954, -9970, -9982, -9991, -9997, -10000 >>

\* x * y as << high limb, low limb >> in base 10^4, for 0 <= y <= 10^8
Mul2(x, y) ==
    LET lo == x * (y % CosScale)
    IN  << x * (y \div CosScale) + (lo \div CosScale), lo % CosScale >>

Less2(u, v) == u[1] < v[1] \/ (u[1] = v[1] /\ u[2] < v[2])

SqDist(P, Q) == (Q[1] - P[1]) * (Q[1] - P[1]) + (Q[2] - P[2]) * (Q[2] - P[2])

\* p > cos(k + 1/2 degrees), with p = n / sqrt(d4) and t = CosHalf[k+1]
CosAbove(n, d4, t) ==
    IF n >= 0 /\ t < 0 THEN TRUE
    ELSE IF n < 0 /\ t >= 0 THEN FALSE
    ELSE IF n >= 0
         THEN Less2(Mul2(d4, t * t), Mul2(n * n, CosScale * CosScale))
         ELSE Less2(Mul2(n * n, CosScale * CosScale), Mul2(d4, t * t))

\* the least k in lo..hi with p > cos(k + 1/2 degrees), hi + 1 if there is
\* none; CosHalf is decreasing, so the test is monotone in k
RECURSIVE FirstAbove(_, _, _, _)
FirstAbove(n, d4, lo, hi) ==
    IF lo > hi THEN lo
    ELSE LET mid == (lo + hi) \div 2
         IN  IF CosAbove(n, d4, CosHalf[mid + 1])
             THEN FirstAbove(n, d4, lo, mid - 1)
             ELSE FirstAbove(n, d4, mid + 1, hi)

\* int(round(math.degrees(math.acos(p)), 0))
AcosDegrees(n, d4) == FirstAbove(n, d4, 0, 179)

\* only mAB is tested for 0: a zero mBC divides by zero, the except returns -1
GetAngleFromPoints_onlyAB(pntList, iPnt) ==
    LET mAB2 == SqDist(pntList[iPnt + 1], pntList[iPnt + 2])
        mBC2 == SqDist(pntList[iPnt + 2], pntList[iPnt + 3])
        mCA2 == SqDist(pntList[iPnt + 3], pntList[iPnt + 1])
    IN  IF mAB2 = 0 THEN 0
        ELSE IF mBC2 = 0 THEN 0 - 1
        ELSE AcosDegrees(mAB2 + mBC2 - mCA2, 4 * mAB2 * mBC2)

\* no test for a zero side: the division by zero ends in the except, -1
GetAngleFromPoints_noGuard(pntList, iPnt) ==
    LET mAB2 == SqDist(pntList[iPnt + 1], pntList[iPnt + 2])
        mBC2 == SqDist(pntList[iPnt + 2], pntList[iPnt + 3])
        mCA2 == SqDist(pntList[iPnt + 3], pntList[iPnt + 1])
    IN  IF mAB2 = 0 \/ mBC2 = 0 THEN 0 - 1
        ELSE AcosDegrees(mAB2 + mBC2 - mCA2, 4 * mAB2 * mBC2)

\* pntList is the Python list, iPnt the 0-based index of the first point
GetAngleFromPoints(pntList, iPnt) ==
    LET mAB2 == SqDist(pntList[iPnt + 1], pntList[iPnt + 2])
        mBC2 == SqDist(pntList[iPnt + 2], pntList[iPnt + 3])
        mCA2 == SqDist(pntList[iPnt + 3], pntList[iPnt + 1])
    IN  IF mAB2 = 0 \/ mBC2 = 0 THEN 0
        ELSE AcosDegrees(mAB2 + mBC2 - mCA2, 4 * mAB2 * mBC2)

-----------------------------------------------------------------------------
(* AddMsgAndPrint(msg, severity): the message channel keeps what was said, *)
(* its severity and the polygon ids the text names                         *)

Msg(text, sev, ids) == [text |-> text, sev |-> sev, ids |-> ids]

-----------------------------------------------------------------------------
(* QA_SliverFinder.ProcessLayer: the body of "for row in sCursor"          *)

Min(S) == CHOOSE m \in S : \A n \in S : m <= n

\* "for pnt in part": the points appended to pntList before the break
WalkPart(part) ==
    LET nulls == {i \in DOMAIN part : part[i] = NullPnt}
    IN  IF nulls = {} THEN part ELSE SubSeq(part, 1, Min(nulls) - 1)

\* pntList.append(pntList[1]) raises IndexError on a list shorter than 2
WrapRaises(part) == Len(WalkPart(part)) < 2

\* pntList after the part is walked and vertex 1 is appended again
WrapPart(part) == LET w == WalkPart(part) IN Append(w, w[2])

\* "for part in feat": pntList is rebuilt for every part, so the list the
\* angle loop sees is the one of the last part
PartLoopRaises(parts) == \E i \in DOMAIN parts : WrapRaises(parts[i])
PartLoopList(parts) == WrapPart(parts[Len(parts)])

\* one angle short: the closure seam is not sampled
NumPnts_short(pntList) == Len(pntList) - 3

\* numPnts = len(pntList) - 2
NumPnts(pntList) == Len(pntList) - 2

\* exclusive comparison
IsSliver_strict(theAngle, limit) == theAngle < limit

\* if theAngle <= minAngle
IsSliver(theAngle, limit) == theAngle <= limit

\* the three coordinate pairs saved with a defect
Triple(pntList, iPnt) ==
    << pntList[iPnt + 1], pntList[iPnt + 2], pntList[iPnt + 3] >>

\* the counter stops at 2: later defects reuse the key
NextKey_stuck(n) == IF n < 2 THEN n + 1 ELSE n

\* iErr += 1
NextKey(n) == n + 1

\* "for iPnt in range(numPnts)" from iPnt on; acc = [iErr, dLines, dTest, msgs, calls]
RECURSIVE AngleLoop(_, _, _, _, _)
AngleLoop(pntList, iPnt, fid, limit, acc) ==
    IF iPnt >= NumPnts(pntList) THEN acc
    ELSE
      LET theAngle == GetAngleFromPoints(pntList, iPnt)
          t        == Triple(pntList, iPnt)
          failed   == SqDist(t[1], t[2]) = 0 \/ SqDist(t[2], t[3]) = 0
          m1       == IF failed
                      THEN Append(acc.msgs,
                                  Msg("Failed to calculate angle at point", 0, << iPnt >>))
                      ELSE acc.msgs
          c1       == Append(acc.calls, t)
          nxt      == IF IsSliver(theAngle, limit)
                      THEN [iErr   |-> NextKey(acc.iErr),
                            dLines |-> DictSet(acc.dLines, NextKey(acc.iErr),
                                               [pts |-> t, fid |-> fid, angle |-> theAngle]),
                            dTest  |-> DictSet(acc.dTest, NextKey(acc.iErr), theAngle),
                            msgs   |-> m1,
                            calls  |-> c1]
                      ELSE [acc EXCEPT !.msgs = m1, !.calls = c1]
      IN  AngleLoop(pntList, iPnt + 1, fid, limit, nxt)

\* the outcome of one row: [iErr, dLines, dTest, msgs, calls, bad]
SliverRow(fid, feat, limit, st) ==
    LET acc0 == [iErr |-> st.iErr, dLines |-> st.dLines, dTest |-> st.dTest,
                 msgs |-> st.msgs, calls |-> << >>]
        keep == [iErr |-> st.iErr, dLines |-> st.dLines, dTest |-> st.dTest,
                 msgs |-> st.msgs, calls |-> << >>, bad |-> st.bad]
    IN  IF ~feat.isNone
        THEN IF partCount(feat) > 0
             THEN IF PartLoopRaises(feat.parts)
                  THEN \* except: AddMsgAndPrint("FID: ..."), errorMsg()
                       [keep EXCEPT !.msgs =
                           st.msgs \o << Msg("FID", 2, << fid >>),
                                         Msg("IndexError", 2, << >>) >>]
                  ELSE LET r == AngleLoop(PartLoopList(feat.parts), 0, fid, limit, acc0)
                       IN  [iErr |-> r.iErr, dLines |-> r.dLines, dTest |-> r.dTest,
                            msgs |-> r.msgs, calls |-> r.calls, bad |-> st.bad]
             ELSE \* Geometry error: Polygon Part with no parts
                  [keep EXCEPT !.bad = Append(st.bad, ToString(fid))]
        ELSE \* Geometry error: Polygon with NULL geometry
             [keep EXCEPT !.bad = Append(st.bad, ToString(fid))]

\* the gate left out, as in the segment tool
BadGate_off(bad) == FALSE

\* if len(badPolys) > 0: report and return False
BadGate(bad) == Len(bad) > 0

-----------------------------------------------------------------------------
(* The __main__ blocks: choice of the working spatial reference and units. *)
(* Both scripts carry the same statements; only the segment tool calls     *)
(* exit() after the datum message.                                         *)

\* if outputSR.name == '': outputSR = inputSR
ChosenSR(inSR, parSR) == IF parSR.name = "" THEN inSR ELSE parSR

\* outputDatum = inputDatum, or outputSR.GCS.datumName
ChosenDatum(inSR, parSR) == IF parSR.name = "" THEN inSR.datum ELSE parSR.datum

\* if inputDatum != outputDatum
DatumMismatch(inSR, parSR) == inSR.datum # ChosenDatum(inSR, parSR)

\* if outputSR.type.upper() != "PROJECTED"
NotProjected(sr) == Upper(sr.type) # "PROJECTED"

\* if inputDatum in ("D_North_American_1983", "D_WGS_1984")
DatumAllowed(inSR) == inSR.datum \in AllowedDatums

\* the fallback taken for every unprojected reference, whatever the datum
WorkingSR_anyDatum(inSR, parSR) ==
    LET chosen == ChosenSR(inSR, parSR)
    IN  IF NotProjected(chosen) THEN CreateWebMercaturSR ELSE chosen

\* the value of outputSR when ProcessLayer is called
WorkingSR(inSR, parSR) ==
    LET chosen == ChosenSR(inSR, parSR)
    IN  IF NotProjected(chosen) /\ DatumAllowed(inSR)
        THEN CreateWebMercaturSR
        ELSE chosen

\* theUnits = linearUnitName.lower().replace("foot","feet").replace("meter","meters")
NormalizeUnits(sr) == Replace(Replace(Lower(sr.unit), sFoot, sFeet), sMeter, sMeters)

\* unitAbbrev = "m" if theUnits.startswith("meter") else "ft"
UnitAbbrev(u) == IF StartsWith(u, sMeter) THEN "m" ELSE "ft"

\* messages of the projection block
ProjectionMsgs(inSR, parSR, unable) ==
    LET chosen == ChosenSR(inSR, parSR)
    IN  IF NotProjected(chosen)
        THEN IF DatumAllowed(inSR)
             THEN << Msg("switching to Web Mercatur (meters)", 1, << >>) >>
             ELSE << Msg(unable, 2, << >>) >>
        ELSE << Msg("output coordinate system", 0, << >>) >>

\* QA_SliverFinder: the datum message is followed by no exit
SliverMainMsgs(inSR, parSR) ==
    (IF DatumMismatch(inSR, parSR)
     THEN << Msg("Input and output datums do not match", 2, << >>) >>
     ELSE << >>)
    \o ProjectionMsgs(inSR, parSR, "Unable to handle output coordinate system")

\* the exit() missing, as in the sliver tool
VertexMainExits_never(inSR, parSR) == FALSE

\* QA_VertexProblems: exit() after the datum message ends the run
VertexMainExits(inSR, parSR) == DatumMismatch(inSR, parSR)

VertexMainMsgs(inSR, parSR) ==
    IF VertexMainExits(inSR, parSR)
    THEN << Msg("Input and output datums do not match", 2, << >>) >>
    ELSE ProjectionMsgs(inSR, parSR, "Unable to handle input coordinate system")

-----------------------------------------------------------------------------
(* Initial state: the parameters of one run, nothing scanned yet *)

\* a run of one of the tools in `tools`, with the input and the requested
\* reference drawn from `inSRs` and `parSRs` and at most `maxRows` features
Start(tools, inSRs, parSRs, maxRows) ==
    /\ tool \in tools
    /\ pc = "main"
    /\ inputSR \in inSRs
    /\ paramSR \in parSRs
    /\ outputSR = paramSR
    /\ outputDatum = ""
    /\ theUnits = << >>
    /\ unitAbbrev = ""
    /\ minAngle \in (IF tool = "sliver" THEN MinAngles ELSE { 0 })
    /\ minDist \in (IF tool = "vertex" THEN MinDists ELSE { 0 })
    /\ outLayer \in (IF tool = "vertex" THEN OutLayers ELSE { "" })
    /\ iSelection \in 0..maxRows
    /\ msgs = << >>
    /\ rows = << >>
    /\ srUsed = << >>
    /\ bProcessed = "none"
    /\ iErr = 0
    /\ dLines = << >>
    /\ dTest = << >>
    /\ badPolys = << >>
    /\ dAngles = << >>
    /\ angleCalls = << >>
    /\ lineSink = << >>
    /\ pointSink = << >>
    /\ wr = 0
    /\ statsTbl = FALSE
    /\ iCnt = 0
    /\ dPoints = << >>
    /\ bHasMultiPart = FALSE
    /\ iPnts = 0
    /\ iSeg = << "n", 0 >>
    /\ iPartCnt = 0
    /\ statBound = FALSE
    /\ outRow = << >>
    /\ segCalls = << >>
    /\ statsSink = << >>
    /\ flagSink = << >>

\* GetAngleFromPoints is only called from the scan
NoAngleCall == pntListArg = << >> /\ angles = << >> /\ anglesRev = << >>

\* either tool, every pair of references, short layers
Init == Start({ "sliver", "vertex" }, InputSRs, ParamSRs, MainMaxPolys) /\ NoAngleCall

\* the sliver tool on a projected layer with no requested reference
InitSliver == Start({ "sliver" }, { UTM_NAD83 }, { NoSR }, MaxPolys) /\ NoAngleCall

\* the point lists GetAngleFromPoints is tried on: every three points of the
\* grid, and the wrapped lists the scan builds for the rings of the shapes
GridPoints == (0..MaxCoord) \X (0..MaxCoord)
AngleInputs ==
    { << A, B, C >> : A \in GridPoints, B \in GridPoints, C \in GridPoints }
      \cup { WrapPart(ring) : ring \in { Square10, SliverTri, TwoVertex, DupVertex, Square2 } }

\* GetAngleFromPoints called on its own
InitAngle ==
    /\ Start({ "angle" }, { NoSR }, { NoSR }, 0)
    /\ pntListArg \in AngleInputs
    /\ angles = << >>
    /\ anglesRev = << >>

\* the segment tool on a layer in meters, in US feet, in international feet,
\* or in degrees of an unsupported datum, with no requested reference
InitVertex ==
    /\ Start({ "vertex" }, { UTM_NAD83, SPCS_NAD83_FT, SPCS_NAD83_IFT, GCS_NAD27 },
             { NoSR }, MaxPolys)
    /\ NoAngleCall

-----------------------------------------------------------------------------
(* QA_SliverFinder *)

\* __main__ up to and including the call of ProcessLayer and its first lines
SliverMain ==
    /\ tool = "sliver"
    /\ pc = "main"
    /\ outputSR' = WorkingSR(inputSR, paramSR)
    /\ outputDatum' = ChosenDatum(inputSR, paramSR)
    /\ theUnits' = NormalizeUnits(outputSR')
    /\ unitAbbrev' = UnitAbbrev(theUnits')
    /\ srUsed' = << outputSR' >>
    /\ msgs' = msgs \o SliverMainMsgs(inputSR, paramSR)
                    \o << Msg("Locating polygon angles less than", 0, << >>) >>
    /\ pc' = "scan"
    /\ UNCHANGED << angleVars, tool, inputSR, paramSR, minAngle, minDist, outLayer,
                    iSelection, rows, bProcessed, sliverVars, vertexVars >>

\* one pass of "for row in sCursor" over the next row the cursor delivers
SliverScanRow ==
    /\ tool = "sliver"
    /\ pc = "scan"
    /\ Len(rows) < iSelection
    /\ \E shape \in Shapes :
         LET fid == FidOf(Len(rows) + 1) IN
         \E r \in { SliverRow(fid, shape.feat, minAngle,
                               [iErr |-> iErr, dLines |-> dLines, dTest |-> dTest,
                                msgs |-> msgs, bad |-> badPolys]) } :
             /\ rows' = Append(rows, [fid |-> fid, feat |-> shape.feat,
                                      area |-> shape.area,
                                      perimeter |-> shape.perimeter])
             /\ iErr' = r.iErr
             /\ dLines' = r.dLines
             /\ dTest' = r.dTest
             /\ msgs' = r.msgs
             /\ badPolys' = r.bad
             /\ angleCalls' = Append(angleCalls, r.calls)
    /\ UNCHANGED << angleVars, tool, pc, mainVars, srUsed, bProcessed, dAngles, lineSink,
                    pointSink, wr, vertexVars >>

\* the cursor has delivered every feature: the bad-polygon gate, the sort by angle, and
\* either the creation of the two output layers or the final return
SliverEndScan ==
    /\ tool = "sliver"
    /\ pc = "scan"
    /\ Len(rows) = iSelection
    /\ IF BadGate(badPolys)
       THEN /\ msgs' = Append(msgs, Msg("Bad polygon geometry detected", 2, badPolys))
            /\ bProcessed' = "False"
            /\ pc' = "done"
            /\ UNCHANGED dAngles
       ELSE /\ dAngles' = SortedByValue(dTest)
            /\ IF Len(dLines) > 0
               THEN /\ msgs' = Append(msgs, Msg("Saved sliver locations", 0, << >>))
                    /\ pc' = "lines"
                    /\ UNCHANGED bProcessed
               ELSE /\ msgs' = Append(msgs, Msg("No polygon angles less than", 0, << >>))
                    /\ bProcessed' = "True"
                    /\ pc' = "done"
    /\ UNCHANGED << angleVars, tool, mainVars, rows, srUsed, iErr, dLines, dTest, badPolys,
                    angleCalls, lineSink, pointSink, wr, vertexVars >>

\* rowLine = (polyLine, fid, theAngle) for the key at position wr of dAngles
LineRow(d, key) ==
    LET v == DictGet(d, key)
    IN  [shape |-> << v.pts[1], v.pts[2], v.pts[3] >>, POLYID |-> v.fid,
         ANGLE |-> v.angle]

\* the point placed at the first vertex of the triple
PointRow_firstVertex(d, key) ==
    LET v == DictGet(d, key)
    IN  [shape |-> v.pts[1], POLYID |-> v.fid,
         ANGLE |-> << ToString(v.angle), "deg" >>]

\* rowPnt = (pnt1, fid, sAngle), sAngle = str(theAngle) + chr(176)
PointRow(d, key) ==
    LET v == DictGet(d, key)
    IN  [shape |-> v.pts[2], POLYID |-> v.fid,
         ANGLE |-> << ToString(v.angle), "deg" >>]

\* one lineCursor.insertRow of "for key in dAngles"
SliverInsertLine ==
    /\ tool = "sliver"
    /\ pc = "lines"
    /\ lineSink' = Append(lineSink, LineRow(dLines, DictKeys(dAngles)[wr + 1]))
    /\ IF wr + 1 = Len(dAngles)
       THEN wr' = 0 /\ pc' = "points"
       ELSE wr' = wr + 1 /\ pc' = "lines"
    /\ UNCHANGED << angleVars, tool, mainVars, msgs, rows, srUsed, bProcessed, iErr, dLines,
                    dTest, badPolys, dAngles, angleCalls, pointSink, vertexVars >>

\* one pntCursor.insertRow of the second "for key in dAngles"; after the
\* last one ProcessLayer returns True
SliverInsertPoint ==
    /\ tool = "sliver"
    /\ pc = "points"
    /\ pointSink' = Append(pointSink, PointRow(dLines, DictKeys(dAngles)[wr + 1]))
    /\ IF wr + 1 = Len(dAngles)
       THEN wr' = 0 /\ pc' = "done" /\ bProcessed' = "True"
       ELSE wr' = wr + 1 /\ pc' = "points" /\ UNCHANGED bProcessed
    /\ UNCHANGED << angleVars, tool, mainVars, msgs, rows, srUsed, iErr, dLines,
                    dTest, badPolys, dAngles, angleCalls, lineSink, vertexVars >>

-----------------------------------------------------------------------------
(* QA_VertexProblems.ProcessLayer: the body of "for fid, feat, theArea,    *)
(* thePerimeter in sCursor"                                                *)

\* iSeg = 1000000, the arbitrarily high segment length
SentinelSeg == 1000000
\* acres = theArea / 4046.85643, numerator and denominator times 10^5
SqMetersPerAcreE5 == 404685643
\* acres = theArea / 43560.0
SqFeetPerAcre == 43560

Quot(a, b) == [num |-> a, den |-> b]

\* x < y for lengths <<"r", d>> = sqrt(d) and <<"n", n>> = n; a square
\* above 46340^2 exceeds every squared distance of the model
LenLess(x, y) ==
    IF x[1] = "r" /\ y[1] = "r" THEN x[2] < y[2]
    ELSE IF x[1] = "n" /\ y[1] = "n" THEN x[2] < y[2]
    ELSE IF x[1] = "r"
         THEN y[2] > 0 /\ (y[2] > 46340 \/ x[2] < y[2] * y[2])
         ELSE x[2] < 0 \/ (x[2] <= 46340 /\ x[2] * x[2] < y[2])

Abs(n) == IF n < 0 THEN 0 - n ELSE n

\* dist = math.hypot(dx, dy): |dx| or |dy| when the other is 0, else the
\* square root of the squared distance
Hypot(P, Q) ==
    IF P[2] = Q[2] THEN << "n", Abs(P[1] - Q[1]) >>
    ELSE IF P[1] = Q[1] THEN << "n", Abs(P[2] - Q[2]) >>
    ELSE << "r", SqDist(P, Q) >>

\* inclusive comparison
IsShort_inclusive(dist, limit) == ~LenLess(<< "n", limit >>, dist)

\* if dist < minDist
IsShort(dist, limit) == LenLess(dist, << "n", limit >>)

\* midPnt = [(xm, ym), fid, dist]
MidPnt(P, Q, fid, dist) ==
    [mid |-> << Quot(P[1] + Q[1], 2), Quot(P[2] + Q[2], 2) >>,
     fid |-> fid, dist |-> dist]

\* the checks of one two-point window; acc = [iSeg, iCnt, dPoints, calls]
SegStep(P, Q, fid, limit, acc) ==
    LET dist == Hypot(P, Q)
        seg1 == IF LenLess(dist, acc.iSeg) THEN dist ELSE acc.iSeg
        c1   == Append(acc.calls, << P, Q >>)
    IN  IF IsShort(dist, limit)
        THEN [iSeg    |-> seg1,
              iCnt    |-> acc.iCnt + 1,
              dPoints |-> IF DictHas(acc.dPoints, fid)
                          THEN DictSet(acc.dPoints, fid,
                                       Append(DictGet(acc.dPoints, fid),
                                              MidPnt(P, Q, fid, dist)))
                          ELSE DictSet(acc.dPoints, fid, << MidPnt(P, Q, fid, dist) >>),
              calls   |-> c1]
        ELSE [acc EXCEPT !.iSeg = seg1, !.calls = c1]

\* "for pnt in part" over the points before the first null, from window i on
RECURSIVE SegLoop(_, _, _, _, _)
SegLoop(w, i, fid, limit, acc) ==
    IF i >= Len(w) THEN acc
    ELSE SegLoop(w, i + 1, fid, limit, SegStep(w[i], w[i + 1], fid, limit, acc))

\* only the first part is walked
VertexPartLoop_firstOnly(parts, fid, limit, acc) ==
    IF parts = << >> THEN acc
    ELSE SegLoop(WalkPart(Head(parts)), 1, fid, limit, acc)

\* "for part in feat": every part is walked up to its first null point
RECURSIVE VertexPartLoop(_, _, _, _)
VertexPartLoop(parts, fid, limit, acc) ==
    IF parts = << >> THEN acc
    ELSE VertexPartLoop(Tail(parts), fid, limit,
                        SegLoop(WalkPart(Head(parts)), 1, fid, limit, acc))

\* pnt0 = part[0] raises IndexError on an empty part
VertexPartRaises(parts) == \E i \in DOMAIN parts : parts[i] = << >>

\* iPartCnt as it stands after the if / elif / else on feat.partCount
PartFlag(n) == IF n = 1 THEN 0 ELSE n

\* every unit taken for a foot unit
AcresKnown_any(u) == TRUE

\* the acreage branch: "meters", "feet_us", or the failure message
AcresKnown(u) == u = sMeters \/ u = sFeetUS
Acres(u, area) ==
    IF u = sMeters THEN Quot(area * 100000, SqMetersPerAcreE5)
    ELSE Quot(area, SqFeetPerAcre)

\* the outcome of one row.  st = [iCnt, dPoints, bHasMultiPart, iPnts, iSeg,
\* iPartCnt, statBound, msgs]; the result adds calls, ret ("ok" or "False")
\* and out, the row handed to iCursor.insertRow (<< >> when none was)
VertexRow(fid, feat, theArea, thePerimeter, limit, u, st) ==
    LET g == \* state after the geometry branch
          IF ~feat.isNone
          THEN LET n   == partCount(feat)
                   m1  == IF n = 0
                          THEN Append(st.msgs, Msg("Bad geometry for polygon", 2, << fid >>))
                          ELSE st.msgs
                   acc == VertexPartLoop(feat.parts, fid, limit,
                                         [iSeg |-> << "n", SentinelSeg >>, iCnt |-> st.iCnt,
                                          dPoints |-> st.dPoints, calls |-> << >>])
               IN  [iCnt |-> acc.iCnt, dPoints |-> acc.dPoints,
                    bHasMultiPart |-> (st.bHasMultiPart \/ n > 1),
                    iPnts |-> pointCount(feat), iSeg |-> acc.iSeg,
                    iPartCnt |-> PartFlag(n), statBound |-> TRUE,
                    msgs |-> m1, calls |-> acc.calls]
          ELSE [iCnt |-> st.iCnt, dPoints |-> st.dPoints,
                bHasMultiPart |-> st.bHasMultiPart, iPnts |-> st.iPnts,
                iSeg |-> st.iSeg, iPartCnt |-> st.iPartCnt,
                statBound |-> st.statBound,
                msgs |-> Append(st.msgs, Msg("NULL geometry for polygon", 2, << fid >>)),
                calls |-> << >>]
        fail(text) ==
          [iCnt |-> g.iCnt, dPoints |-> g.dPoints, bHasMultiPart |-> g.bHasMultiPart,
           iPnts |-> g.iPnts, iSeg |-> g.iSeg, iPartCnt |-> g.iPartCnt,
           statBound |-> g.statBound, msgs |-> Append(g.msgs, Msg(text, 2, << >>)),
           calls |-> g.calls, ret |-> "False", out |-> << >>]
    IN  IF ~feat.isNone /\ VertexPartRaises(feat.parts)
        THEN [fail("IndexError") EXCEPT !.msgs = Append(st.msgs, Msg("IndexError", 2, << >>))]
        ELSE IF ~AcresKnown(u) THEN fail("Failed to calculate acre value using unit")
        ELSE IF theArea = None THEN fail("TypeError")
        ELSE IF ~g.statBound THEN fail("UnboundLocalError")
        ELSE IF thePerimeter = None THEN fail("TypeError")
        ELSE IF g.iPnts = 0 THEN fail("ZeroDivisionError")
        ELSE [iCnt |-> g.iCnt, dPoints |-> g.dPoints, bHasMultiPart |-> g.bHasMultiPart,
              iPnts |-> g.iPnts, iSeg |-> g.iSeg, iPartCnt |-> g.iPartCnt,
              statBound |-> g.statBound, msgs |-> g.msgs, calls |-> g.calls,
              ret |-> "ok",
              out |-> << [POLYID |-> fid, ACRES |-> Acres(u, theArea[1]),
                          VERTICES |-> g.iPnts,
                          AVI |-> Quot(thePerimeter[1], g.iPnts),
                          MIN_DIST |-> g.iSeg, MULTIPART |-> g.iPartCnt] >>]

\* a record only for a polygon that has a flagged segment
StatsInsert_onlyFlagged(sink, r) ==
    IF DictHas(r.dPoints, r.out[1].POLYID) THEN Append(sink, r.out[1]) ELSE sink

\* iCursor.insertRow(outRow)
StatsInsert(sink, r) == Append(sink, r.out[1])

\* the polygons taken last to first
RECURSIVE FlagRows_reversed(_)
FlagRows_reversed(d) ==
    IF d = << >> THEN << >> ELSE FlagRows_reversed(Tail(d)) \o Head(d)[2]

\* the rows of "for fid in dPoints.keys(): for pnt in dPoints[fid]", in order
RECURSIVE FlagRows(_)
FlagRows(d) == IF d = << >> THEN << >> ELSE Head(d)[2] \o FlagRows(Tail(d))

\* if outLayer != "" and len(dPoints) > 0
WritesFlags(layer, d) == layer # "" /\ Len(d) > 0

-----------------------------------------------------------------------------
(* QA_VertexProblems *)

\* __main__ up to exit(), or up to the call of ProcessLayer and its first
\* lines, which create the statistics table
VertexMain ==
    /\ tool = "vertex"
    /\ pc = "main"
    /\ outputDatum' = ChosenDatum(inputSR, paramSR)
    /\ IF VertexMainExits(inputSR, paramSR)
       THEN /\ outputSR' = ChosenSR(inputSR, paramSR)
            /\ msgs' = msgs \o VertexMainMsgs(inputSR, paramSR)
            /\ pc' = "done"
            /\ UNCHANGED << theUnits, unitAbbrev, srUsed, statsTbl >>
       ELSE /\ outputSR' = WorkingSR(inputSR, paramSR)
            /\ theUnits' = NormalizeUnits(outputSR')
            /\ unitAbbrev' = UnitAbbrev(theUnits')
            /\ srUsed' = << outputSR' >>
            /\ statsTbl' = TRUE
            /\ msgs' = msgs \o VertexMainMsgs(inputSR, paramSR)
                            \o << Msg("Reading polygon geometry", 0, << >>) >>
            /\ pc' = "scan"
    /\ UNCHANGED << angleVars, tool, inputSR, paramSR, minAngle, minDist, outLayer,
                    iSelection, rows, bProcessed, sliverVars, iCnt, dPoints, bHasMultiPart, iPnts,
                    iSeg, iPartCnt, statBound, outRow, segCalls, statsSink,
                    flagSink >>

\* one pass of the cursor loop over the next row the cursor delivers
VertexScanRow ==
    /\ tool = "vertex"
    /\ pc = "scan"
    /\ Len(rows) < iSelection
    /\ \E shape \in Shapes \cup LongShapes :
         LET fid == FidOf(Len(rows) + 1) IN
         \E r \in { VertexRow(fid, shape.feat, shape.area, shape.perimeter,
                              minDist, theUnits,
                              [iCnt |-> iCnt, dPoints |-> dPoints,
                               bHasMultiPart |-> bHasMultiPart, iPnts |-> iPnts,
                               iSeg |-> iSeg, iPartCnt |-> iPartCnt,
                               statBound |-> statBound, msgs |-> msgs]) } :
             /\ rows' = Append(rows, [fid |-> fid, feat |-> shape.feat,
                                      area |-> shape.area,
                                      perimeter |-> shape.perimeter])
             /\ iCnt' = r.iCnt
             /\ dPoints' = r.dPoints
             /\ bHasMultiPart' = r.bHasMultiPart
             /\ iPnts' = r.iPnts
             /\ iSeg' = r.iSeg
             /\ iPartCnt' = r.iPartCnt
             /\ statBound' = r.statBound
             /\ msgs' = r.msgs
             /\ segCalls' = Append(segCalls, r.calls)
             /\ IF r.ret = "ok"
                THEN /\ outRow' = r.out
                     /\ statsSink' = StatsInsert(statsSink, r)
                     /\ UNCHANGED << pc, bProcessed >>
                ELSE /\ pc' = "done"
                     /\ bProcessed' = "False"
                     /\ UNCHANGED << outRow, statsSink >>
    /\ UNCHANGED << angleVars, tool, mainVars, srUsed, sliverVars, statsTbl, flagSink >>

\* the cursor has delivered every feature: del outRow, the multipart message, and either
\* the creation of the flag-point layer or the final return
VertexEndScan ==
    /\ tool = "vertex"
    /\ pc = "scan"
    /\ Len(rows) = iSelection
    /\ IF outRow = << >>
       THEN \* del outRow: UnboundLocalError, caught by the outer except
            /\ msgs' = Append(msgs, Msg("UnboundLocalError", 2, << >>))
            /\ bProcessed' = "False"
            /\ pc' = "done"
       ELSE LET m1 == IF bHasMultiPart
                      THEN Append(msgs, Msg("Input layer has multipart polygons", 2, << >>))
                      ELSE msgs
            IN  IF WritesFlags(outLayer, dPoints)
                THEN /\ msgs' = Append(m1, Msg("Flagged segments shorter than", 1, << >>))
                     /\ pc' = "flags"
                     /\ UNCHANGED bProcessed
                ELSE /\ msgs' = Append(m1, Msg("No short segments detected", 0, << >>))
                     /\ bProcessed' = "True"
                     /\ pc' = "done"
    /\ UNCHANGED << angleVars, tool, mainVars, rows, srUsed, sliverVars, vertexVars >>

\* one pntCursor.insertRow(pnt); after the last one the statistics table is
\* joined and ProcessLayer returns True
VertexInsertPoint ==
    /\ tool = "vertex"
    /\ pc = "flags"
    /\ flagSink' = Append(flagSink, FlagRows(dPoints)[Len(flagSink) + 1])
    /\ IF Len(flagSink) + 1 = Len(FlagRows(dPoints))
       THEN pc' = "done" /\ bProcessed' = "True"
       ELSE UNCHANGED << pc, bProcessed >>
    /\ UNCHANGED << angleVars, tool, mainVars, msgs, rows, srUsed, sliverVars, statsTbl,
                    iCnt, dPoints, bHasMultiPart, iPnts, iSeg, iPartCnt,
                    statBound, outRow, segCalls, statsSink >>

-----------------------------------------------------------------------------
Next ==
    \/ SliverMain
    \/ SliverScanRow
    \/ SliverEndScan
    \/ SliverInsertLine
    \/ SliverInsertPoint
    \/ VertexMain
    \/ VertexScanRow
    \/ VertexEndScan
    \/ VertexInsertPoint

NextSliver ==
    \/ SliverMain
    \/ SliverScanRow
    \/ SliverEndScan
    \/ SliverInsertLine
    \/ SliverInsertPoint

NextVertex ==
    \/ VertexMain
    \/ VertexScanRow
    \/ VertexEndScan
    \/ VertexInsertPoint

\* the point list read last to first
Reverse(s) == [i \in 1..Len(s) |-> s[Len(s) + 1 - i]]

\* "for iPnt in range(numPnts): theAngle = GetAngleFromPoints(pntList, iPnt)"
AnglesAlong(pntList) ==
    [i \in 1..NumPnts(pntList) |-> GetAngleFromPoints(pntList, i - 1)]

\* the angle at every middle point of the list, read forward and backward
AngleEval ==
    /\ tool = "angle"
    /\ pc = "main"
    /\ angles' = AnglesAlong(pntListArg)
    /\ anglesRev' = AnglesAlong(Reverse(pntListArg))
    /\ pc' = "done"
    /\ UNCHANGED << pntListArg, tool, mainVars, msgs, rows, srUsed, bProcessed,
                    sliverVars, vertexVars >>

NextAngle == AngleEval

\* runs of either tool over every pair of references
Spec == Init /\ [][Next]_vars

\* runs of QA_SliverFinder over every sequence of shapes
SpecSliver == InitSliver /\ [][NextSliver]_vars

\* runs of QA_VertexProblems over every sequence of shapes
SpecVertex == InitVertex /\ [][NextVertex]_vars

\* GetAngleFromPoints over every point list of AngleInputs
SpecAngle == InitAngle /\ [][NextAngle]_vars

-----------------------------------------------------------------------------
(* Properties *)

IsBadRow(row) == row.feat.isNone \/ partCount(row.feat) = 0
BadRows == { i \in DOMAIN rows : IsBadRow(rows[i]) }
AnyBadRow == BadRows # {}

\* the ids of the bad rows among the first n delivered, in delivery order
RECURSIVE BadIds(_)
BadIds(n) ==
    IF n = 0 THEN << >>
    ELSE IF IsBadRow(rows[n]) THEN Append(BadIds(n - 1), ToString(rows[n].fid))
         ELSE BadIds(n - 1)

BadReports == { i \in DOMAIN msgs : msgs[i].text = "Bad polygon geometry detected" }

\* C1: in the sliver tool a row with null geometry or no parts does not stop
\* the scan (rows after it are still read and their angles evaluated), every
\* bad id is in badPolys; once one was met no sink ever receives a record,
\* and the run ends with one report naming all bad ids and returns False.
C1_BadPolygonGate ==
    tool = "sliver" =>
      /\ badPolys = BadIds(Len(rows))
      /\ Len(angleCalls) = Len(rows)
      /\ \A i \in DOMAIN rows :
           (~IsBadRow(rows[i]) /\ ~PartLoopRaises(rows[i].feat.parts))
             => Len(angleCalls[i]) > 0
      /\ AnyBadRow =>
           /\ lineSink = << >>
           /\ pointSink = << >>
           /\ bProcessed # "True"
           /\ pc \in { "scan", "done" }
           /\ pc = "done" =>
                /\ bProcessed = "False"
                /\ Cardinality(BadReports) = 1
                /\ msgs[Len(msgs)].text = "Bad polygon geometry detected"
                /\ msgs[Len(msgs)].ids = BadIds(Len(rows))

\* a finished run with a bad first row, a second row that was still scanned
\* and produced defects, and nothing written
C1_Witness ==
    /\ tool = "sliver"
    /\ pc = "done"
    /\ Len(rows) = 2
    /\ IsBadRow(rows[1])
    /\ ~IsBadRow(rows[2])
    /\ Len(angleCalls[2]) > 0
    /\ iErr > 0
    /\ bProcessed = "False"

\* C2: in the segment tool a run with a null-geometry or zero-part row writes
\* no statistics row and no flag point, and ends returning False.
C2_VertexAllOrNothing ==
    (tool = "vertex" /\ AnyBadRow) =>
      /\ statsSink = << >>
      /\ flagSink = << >>
      /\ pc = "done" => bProcessed = "False"

\* position, counted from 0, of key k in the ascending stable order of the
\* recorded angles: keys with a smaller angle, or the same angle and an
\* earlier discovery, come first
KeyRank(k) ==
    Cardinality({ j \in DOMAIN dLines :
        \/ dLines[j][2].angle < DictGet(dLines, k).angle
        \/ (dLines[j][2].angle = DictGet(dLines, k).angle /\ dLines[j][1] < k) })

\* C3: the i-th record of the line sink and of the point sink is the defect
\* of rank i in ascending angle order, equal angles in discovery order;
\* angles [30,10,45,10] under keys 1..4 come out in key order [2,4,1,3].
C3_SortedStableOutput ==
    /\ DictKeys(SortedByValue(<< <<1, 30>>, <<2, 10>>, <<3, 45>>, <<4, 10>> >>))
         = << 2, 4, 1, 3 >>
    /\ tool = "sliver" =>
         /\ \A i \in DOMAIN lineSink :
              \E j \in DOMAIN dLines :
                 /\ KeyRank(dLines[j][1]) = i - 1
                 /\ lineSink[i] = LineRow(dLines, dLines[j][1])
         /\ \A i \in DOMAIN pointSink :
              \E j \in DOMAIN dLines :
                 /\ KeyRank(dLines[j][1]) = i - 1
                 /\ pointSink[i] = PointRow(dLines, dLines[j][1])
         /\ \A i, j \in DOMAIN lineSink : i < j => lineSink[i].ANGLE <= lineSink[j].ANGLE

\* both sinks fully written, with equal angles among the defects and an
\* output order that differs from the discovery order
C3_Witness ==
    /\ tool = "sliver"
    /\ pc = "done"
    /\ Len(lineSink) >= 4
    /\ Len(pointSink) = Len(lineSink)
    /\ DictKeys(dAngles) # DictKeys(dTest)
    /\ \E i, j \in DOMAIN dTest : i < j /\ dTest[i][2] = dTest[j][2]
    /\ \E i, j \in DOMAIN dTest : i < j /\ dTest[i][2] > dTest[j][2]

\* the defects recorded for the triple t of the polygon fid
DefectsOf(t, fid) ==
    { j \in DOMAIN dLines : dLines[j][2].pts = t /\ dLines[j][2].fid = fid }

\* how often the triple t was evaluated for row i
TimesEvaluated(i, t) == Cardinality({ j \in DOMAIN angleCalls[i] : angleCalls[i][j] = t })

RingPairs(feat) ==
    { pj \in UNION { { << p, j >> : j \in 1..(Len(feat.parts[p]) - 1) } :
                     p \in DOMAIN feat.parts } :
        \A k \in 1..(pj[2] + 1) : feat.parts[pj[1]][k] # NullPnt }

PairLen(feat, pj) == Hypot(feat.parts[pj[1]][pj[2]], feat.parts[pj[1]][pj[2] + 1])

\* the flag record a short pair must have produced
ExpectedFlag(feat, pj, fid) ==
    LET P == feat.parts[pj[1]][pj[2]]
        Q == feat.parts[pj[1]][pj[2] + 1]
    IN  [mid  |-> << [num |-> P[1] + Q[1], den |-> 2], [num |-> P[2] + Q[2], den |-> 2] >>,
         fid  |-> fid,
         dist |-> PairLen(feat, pj)]

FlagsOf(fid) == IF DictHas(dPoints, fid) THEN DictGet(dPoints, fid) ELSE << >>

\* C5: for every consecutive vertex pair of a scanned ring a flag is recorded
\* exactly when its length is strictly below minDist, and the flag carries
\* the polygon id, the length and the midpoint; the square of side 10 has
\* no flag for minDist 5 and its four side midpoints for minDist 11.
C5_ShortSegmentStrict ==
    tool = "vertex" =>
      \A i \in DOMAIN rows :
        LET feat  == rows[i].feat
            fid   == rows[i].fid
            short == { pj \in RingPairs(feat) :
                         LenLess(PairLen(feat, pj), << "n", minDist >>) }
        IN  /\ Len(FlagsOf(fid)) = Cardinality(short)
            /\ \A pj \in short :
                 \E k \in DOMAIN FlagsOf(fid) : FlagsOf(fid)[k] = ExpectedFlag(feat, pj, fid)
            /\ \A k \in DOMAIN FlagsOf(fid) :
                 \E pj \in short : FlagsOf(fid)[k] = ExpectedFlag(feat, pj, fid)
            /\ \A pj \in RingPairs(feat) :
                 PairLen(feat, pj) = << "n", minDist >>
                   => \A k \in DOMAIN FlagsOf(fid) : FlagsOf(fid)[k].dist # PairLen(feat, pj)
            /\ (feat = Geom(<< Square10 >>) /\ minDist = 5) => FlagsOf(fid) = << >>
            /\ (feat = Geom(<< Square10 >>) /\ minDist = 11) =>
                 [k \in DOMAIN FlagsOf(fid) |-> FlagsOf(fid)[k].mid]
                   = << << [num |-> 10, den |-> 2], [num |-> 0,  den |-> 2] >>,
                        << [num |-> 20, den |-> 2], [num |-> 10, den |-> 2] >>,
                        << [num |-> 10, den |-> 2], [num |-> 20, den |-> 2] >>,
                        << [num |-> 0,  den |-> 2], [num |-> 10, den |-> 2] >> >>

\* the square of side 10 scanned with minDist 11 (four flags) after a
\* polygon scanned in the same run
C5_Witness ==
    /\ tool = "vertex"
    /\ minDist = 11
    /\ Len(rows) = 2
    /\ rows[2].feat = Geom(<< Square10 >>)
    /\ Len(FlagsOf(rows[2].fid)) = 4
    /\ iCnt >= 4

\* a single-part polygon whose ring is closed, has no null point, and whose
\* n >= 3 vertices before the closing point are pairwise distinct
IsSimpleRing(feat) ==
    /\ ~feat.isNone
    /\ Len(feat.parts) = 1
    /\ LET ring == feat.parts[1]
       IN  /\ Len(ring) >= 4
           /\ \A k \in DOMAIN ring : ring[k] # NullPnt
           /\ ring[1] = ring[Len(ring)]
           /\ \A k, l \in 1..(Len(ring) - 1) : k # l => ring[k] # ring[l]

\* C6: for such a polygon with n distinct vertices exactly n angles are
\* evaluated (the wrap-extended list has n + 2 points), and the middle
\* points of the n triples are the n ring vertices, each exactly once.
C6_EveryVertexSampledOnce ==
    tool = "sliver" =>
      \A i \in DOMAIN angleCalls :
        IsSimpleRing(rows[i].feat) =>
          LET ring == rows[i].feat.parts[1]
              n    == Len(ring) - 1
          IN  /\ Len(angleCalls[i]) = n
              /\ Len(angleCalls[i]) = Len(WrapPart(ring)) - 2
              /\ \A k \in 1..n :
                   Cardinality({ j \in DOMAIN angleCalls[i] : angleCalls[i][j][2] = ring[k] }) = 1
              /\ \A j \in DOMAIN angleCalls[i] :
                   \E k \in 1..n : angleCalls[i][j][2] = ring[k]

\* the square scanned: four angles, the seam vertex (0,0) among the middles
C6_Witness ==
    /\ tool = "sliver"
    /\ \E i \in DOMAIN angleCalls :
         /\ rows[i].feat = Geom(<< Square10 >>)
         /\ Len(angleCalls[i]) = 4
         /\ \E j \in DOMAIN angleCalls[i] : angleCalls[i][j][2] = << 0, 0 >>

\* ProcessLayer was not called: no working reference was handed over, no
\* row was read, nothing was created or written
NothingScanned ==
    /\ srUsed = << >>
    /\ rows = << >>
    /\ angleCalls = << >>
    /\ segCalls = << >>
    /\ statsTbl = FALSE
    /\ lineSink = << >>
    /\ pointSink = << >>
    /\ statsSink = << >>
    /\ flagSink = << >>
    /\ bProcessed = "none"

MismatchReported ==
    \E i \in DOMAIN msgs :
       msgs[i].text = "Input and output datums do not match" /\ msgs[i].sev = 2

\* the datum of the requested reference, or of the input when none is requested
RequestedDatum == IF paramSR.name = "" THEN inputSR.datum ELSE paramSR.datum

\* C7: in the sliver tool a requested reference whose datum differs from
\* the input's makes the run report the mismatch and halt before
\* ProcessLayer: no polygon is scanned and no sink receives a record.
C7_SliverHaltsOnDatumMismatch ==
    (tool = "sliver" /\ inputSR.datum # RequestedDatum) =>
      /\ NothingScanned
      /\ pc # "main" => (MismatchReported /\ pc = "done")

\* C8: in the segment tool a requested reference whose datum differs from
\* the input's makes the run report the mismatch and halt before
\* ProcessLayer: the statistics table is not created, no polygon is scanned
\* and no sink receives a record.
C8_VertexHaltsOnDatumMismatch ==
    (tool = "vertex" /\ inputSR.datum # RequestedDatum) =>
      /\ NothingScanned
      /\ pc # "main" => (MismatchReported /\ pc = "done")

\* the segment tool halted after main on a datum mismatch
C8_Witness ==
    /\ tool = "vertex"
    /\ paramSR.name # ""
    /\ inputSR.datum # paramSR.datum
    /\ pc = "done"
    /\ MismatchReported

\* the reference the run chose: the input when none is requested
RequestedSR == IF paramSR.name = "" THEN inputSR ELSE paramSR

Unsupported ==
    /\ RequestedSR.type # "Projected"
    /\ inputSR.datum \notin { "D_North_American_1983", "D_WGS_1984" }

\* C9: in both tools, when the chosen reference is not projected and the
\* input datum is outside the allow-list, the run fails before any
\* scanning: ProcessLayer is not called and no polygon is measured.
C9_UnsupportedReferenceHalts ==
    Unsupported => (NothingScanned /\ (pc # "main" => pc = "done"))

\* C10: the working reference handed to ProcessLayer is the input reference
\* when none is requested, else the requested one; it is used unchanged
\* when projected, and it is replaced by the fixed global projection exactly
\* when it is not projected and the input datum is in the allow-list; the
\* script's outputSR keeps that value for the rest of the run.
C10_WorkingReference ==
    srUsed # << >> =>
      /\ Len(srUsed) = 1
      /\ outputSR = srUsed[1]
      /\ paramSR.name = "" => srUsed[1] \in { inputSR, CreateWebMercaturSR }
      /\ RequestedSR.type = "Projected" => srUsed[1] = RequestedSR
      /\ (srUsed[1] # RequestedSR) <=>
            /\ RequestedSR.type # "Projected"
            /\ inputSR.datum \in { "D_North_American_1983", "D_WGS_1984" }
      /\ srUsed[1] # RequestedSR =>
            /\ srUsed[1].name = "WGS_1984_Web_Mercator_Auxiliary_Sphere"
            /\ theUnits = << "m", "e", "t", "e", "r", "s" >>

\* a scan under the fallback projection for an unprojected input with no
\* requested reference, and rows read with it
C10_Witness ==
    /\ paramSR.name = ""
    /\ inputSR.type = "Geographic"
    /\ srUsed = << CreateWebMercaturSR >>
    /\ Len(rows) > 0

\* the points of one part
PartPoints(part) == { part[k] : k \in DOMAIN part } \ { NullPnt }

\* C11: for a polygon with more than one part, every evaluated and every
\* recorded angle triple consists of vertices of the first part.
C11_FirstPartOnly ==
    tool = "sliver" =>
      \A i \in DOMAIN angleCalls :
        partCount(rows[i].feat) > 1 =>
          /\ \A j \in DOMAIN angleCalls[i] : \A k \in 1..3 :
               angleCalls[i][j][k] \in PartPoints(rows[i].feat.parts[1])
          /\ \A d \in DOMAIN dLines :
               dLines[d][2].fid = rows[i].fid =>
                 \A k \in 1..3 : dLines[d][2].pts[k] \in PartPoints(rows[i].feat.parts[1])

\* the consecutive vertex pairs of one part up to its first null point, in
\* ring order
PairsOfPart(part) ==
    LET stop == IF \E k \in DOMAIN part : part[k] = NullPnt
                THEN Min({ k \in DOMAIN part : part[k] = NullPnt })
                ELSE Len(part) + 1
    IN  [j \in 1..(IF stop >= 2 THEN stop - 2 ELSE 0) |-> << part[j], part[j + 1] >>]

\* the pairs of every part, part after part
RECURSIVE PairsOfParts(_)
PairsOfParts(parts) ==
    IF parts = << >> THEN << >>
    ELSE PairsOfPart(Head(parts)) \o PairsOfParts(Tail(parts))

PartsWithNull(feat) ==
    { p \in DOMAIN feat.parts : \E k \in DOMAIN feat.parts[p] : feat.parts[p][k] = NullPnt }

FirstNull(part) == Min({ k \in DOMAIN part : part[k] = NullPnt })

\* the points of a part positioned before / after its first null point
BeforeNull(part) == { part[k] : k \in 1..(FirstNull(part) - 1) }
AfterNull(part) == { part[k] : k \in (FirstNull(part) + 1)..Len(part) } \ { NullPnt }

\* the points that row i handed to the angle function or to the distance test
SampledPoints(i) ==
    IF tool = "sliver"
    THEN { angleCalls[i][j][k] : j \in DOMAIN angleCalls[i], k \in 1..3 }
    ELSE { segCalls[i][j][k] : j \in DOMAIN segCalls[i], k \in 1..2 }

\* an exception was reported while row i was processed
RowRaised(i) ==
    \E m \in DOMAIN msgs : msgs[m].text = "FID" /\ msgs[m].ids = << rows[i].fid >>

\* C13: when a part holds a null vertex, no vertex positioned after the null
\* in that part is sampled, no exception is raised for the polygon, and the
\* vertices read before the null are sampled.
C13_NullVertexStopsWalk ==
    \A i \in DOMAIN rows :
      (tool = "sliver" => i \in DOMAIN angleCalls) /\ (tool = "vertex" => i \in DOMAIN segCalls)
      => \A p \in PartsWithNull(rows[i].feat) :
           LET part == rows[i].feat.parts[p]
           IN  /\ AfterNull(part) \cap SampledPoints(i) = {}
               /\ ~RowRaised(i)
               /\ BeforeNull(part) \subseteq SampledPoints(i)

\* C14: the statistics sink holds one record per delivered polygon, in
\* delivery order, with or without defects and whatever the output layer
\* parameter; only the polygon on which the run stopped has none, and after
\* a successful run there are as many records as input polygons.
C14_OneStatsRecordPerPolygon ==
    tool = "vertex" =>
      /\ Len(statsSink) <= Len(rows)
      /\ \A k \in DOMAIN statsSink : statsSink[k].POLYID = rows[k].fid
      /\ Len(statsSink) < Len(rows) =>
           /\ Len(statsSink) = Len(rows) - 1
           /\ pc = "done"
           /\ bProcessed = "False"
      /\ bProcessed = "True" =>
           /\ Len(statsSink) = Len(rows)
           /\ Len(statsSink) = iSelection

\* a successful run with no output layer over two polygons, one with and
\* one without a short segment
C14_Witness ==
    /\ tool = "vertex"
    /\ bProcessed = "True"
    /\ outLayer = ""
    /\ Len(rows) = 2
    /\ Len(statsSink) = 2
    /\ \E i, j \in DOMAIN rows : FlagsOf(rows[i].fid) = << >> /\ FlagsOf(rows[j].fid) # << >>

\* the lengths of the segments scanned for row i
SegLengths(i) == { Hypot(segCalls[i][j][1], segCalls[i][j][2]) : j \in DOMAIN segCalls[i] }

\* C15: for every polygon with at least one scanned segment, MIN_DIST of its
\* statistics record is the smallest of the lengths of its scanned
\* segments, whatever minDist is and whether or not a segment was flagged.
C15_MinDistIsMinimum ==
    tool = "vertex" =>
      \A k \in DOMAIN statsSink :
        SegLengths(k) # {} =>
          /\ \A d \in SegLengths(k) : ~LenLess(d, statsSink[k].MIN_DIST)
          /\ \E d \in SegLengths(k) :
               ~LenLess(d, statsSink[k].MIN_DIST) /\ ~LenLess(statsSink[k].MIN_DIST, d)

\* an error message about the unit was sent
UnitErrorReported ==
    \E m \in DOMAIN msgs :
      msgs[m].sev = 2 /\ msgs[m].text = "Failed to calculate acre value using unit"

\* C16: once the unit is normalized, theUnits is one of the two canonical
\* values "meters" and "feet"; a unit name that yields neither is reported
\* as an error by the end of the run.
C16_TwoCanonicalUnits ==
    srUsed # << >> =>
      \/ theUnits \in { sMeters, sFeet }
      \/ pc = "done" => UnitErrorReported

\* the linear unit of the working reference is a foot unit
FootUnit == srUsed # << >> /\ StartsWith(Lower(srUsed[1].unit), sFoot)

\* the linear unit of the working reference is the meter
MeterUnit == srUsed # << >> /\ StartsWith(Lower(srUsed[1].unit), sMeter)

\* C17: every statistics record has ACRES = area/4046.85643 when the working
\* unit is the meter and area/43560.0 when it is a foot unit, and a working
\* reference in a foot unit never triggers the unit error.
C17_AcresPerUnit ==
    tool = "vertex" =>
      /\ \A k \in DOMAIN statsSink :
           /\ MeterUnit => statsSink[k].ACRES
                             = [num |-> rows[k].area[1] * 100000, den |-> SqMetersPerAcreE5]
           /\ FootUnit => statsSink[k].ACRES
                            = [num |-> rows[k].area[1], den |-> SqFeetPerAcre]
      /\ FootUnit => ~UnitErrorReported

\* ProcessLayer of the segment tool runs with a unit its acreage branch
\* does not know
UnknownAcreUnit ==
    tool = "vertex" /\ srUsed # << >> /\ theUnits \notin { sMeters, sFeetUS }

\* C18: with a working unit the acreage computation does not recognise,
\* ProcessLayer returns False and nothing is ever inserted in the
\* statistics sink or in the defect-point sink.
C18_UnknownUnitWritesNothing ==
    UnknownAcreUnit =>
      /\ statsSink = << >>
      /\ flagSink = << >>
      /\ pc # "flags"
      /\ bProcessed # "True"
      /\ pc = "done" => bProcessed = "False"

\* a layer of two polygons in international feet: the run has stopped at
\* the first polygon with the unit error and False
C18_Witness ==
    /\ UnknownAcreUnit
    /\ theUnits = sFeet
    /\ iSelection = 2
    /\ Len(rows) = 1
    /\ dPoints # << >>
    /\ UnitErrorReported
    /\ pc = "done"
    /\ bProcessed = "False"

\* the measured pair c is shorter than minDist
ShortCall(c) == LenLess(Hypot(c[1], c[2]), << "n", minDist >>)

\* the defects of row i in the order their segments were measured
DiscoveredIn(i) ==
    LET short == SelectSeq(segCalls[i], ShortCall)
    IN  [k \in DOMAIN short |->
           [mid  |-> << [num |-> short[k][1][1] + short[k][2][1], den |-> 2],
                        [num |-> short[k][1][2] + short[k][2][2], den |-> 2] >>,
            fid  |-> rows[i].fid,
            dist |-> Hypot(short[k][1], short[k][2])]]

\* the defects of rows 1..n in discovery order
RECURSIVE DiscoveredUpTo(_)
DiscoveredUpTo(n) == IF n = 0 THEN << >> ELSE DiscoveredUpTo(n - 1) \o DiscoveredIn(n)

\* C19: the point sink receives the segment defects in discovery order with
\* no re-sort: what has been inserted is always the beginning of the list
\* of defects by polygon in delivery order and by segment within a polygon,
\* the defects of one polygon are contiguous, and a finished run has
\* inserted them all.
C19_DiscoveryOrder ==
    tool = "vertex" =>
      LET all == DiscoveredUpTo(Len(segCalls))
      IN  /\ Len(flagSink) <= Len(all)
          /\ flagSink = SubSeq(all, 1, Len(flagSink))
          /\ \A a, b \in DOMAIN flagSink : a < b => flagSink[a].fid <= flagSink[b].fid
          /\ (pc = "done" /\ bProcessed = "True" /\ outLayer # "") => flagSink = all

\* a finished run that wrote the defects of two polygons, several of them
\* for the first one
C19_Witness ==
    /\ tool = "vertex"
    /\ pc = "done"
    /\ bProcessed = "True"
    /\ Len(rows) = 2
    /\ Len(flagSink) >= 4
    /\ flagSink[1].fid = rows[1].fid
    /\ flagSink[2].fid = rows[1].fid
    /\ flagSink[2] # flagSink[1]
    /\ flagSink[Len(flagSink)].fid = rows[2].fid

\* the middle points of the list whose angle is at most m
FlaggedAt(pntList, theAngles, m) ==
    { pntList[i + 1] : i \in { k \in DOMAIN theAngles : theAngles[k] <= m } }

\* C20: GetAngleFromPoints returns the same value on (A,B,C) and on (C,B,A):
\* along a point list read forward and backward every middle vertex gets
\* the same angle, and the same vertices are flagged for every threshold.
C20_AngleReversalInvariant ==
    (tool = "angle" /\ pc = "done") =>
      LET n == Len(angles)
      IN  /\ Len(anglesRev) = n
          /\ \A i \in 1..n : angles[i] = anglesRev[n + 1 - i]
          /\ \A m \in MinAngles :
               FlaggedAt(pntListArg, angles, m) = FlaggedAt(Reverse(pntListArg), anglesRev, m)

\* three distinct points with sides of different length and an acute angle
\* between them, evaluated both ways
C20_Witness ==
    /\ tool = "angle"
    /\ pc = "done"
    /\ Len(pntListArg) = 3
    /\ SqDist(pntListArg[1], pntListArg[2]) # SqDist(pntListArg[2], pntListArg[3])
    /\ angles[1] \in 1..44
    /\ anglesRev[1] = angles[1]

\* the triple t has a side AB or BC of length 0
ZeroSide(t) == SqDist(t[1], t[2]) = 0 \/ SqDist(t[2], t[3]) = 0

\* the wrapped point list the angle loop of row i reads
ScannedList(i) == WrapPart(rows[i].feat.parts[Len(rows[i].feat.parts)])

\* C21: a triple with a zero-length side AB or BC gets the angle 0 and no
\* exception; it is recorded as a defect exactly when minAngle >= 0, and
\* every triple of the polygon's list is still evaluated.
C21_DegenerateTripleIsZero ==
    tool = "sliver" =>
      \A i \in DOMAIN angleCalls : \A j \in DOMAIN angleCalls[i] :
        LET t == angleCalls[i][j]
        IN  ZeroSide(t) =>
              /\ ~RowRaised(i)
              /\ IF minAngle >= 0
                 THEN /\ Cardinality(DefectsOf(t, rows[i].fid)) = TimesEvaluated(i, t)
                      /\ \A d \in DefectsOf(t, rows[i].fid) :
                           dLines[d][2].angle = 0 /\ DictGet(dTest, dLines[d][1]) = 0
                 ELSE DefectsOf(t, rows[i].fid) = {}
              /\ Len(angleCalls[i]) = Len(ScannedList(i)) - 2
              /\ \A k \in DOMAIN angleCalls[i] : angleCalls[i][k] = Triple(ScannedList(i), k - 1)

\* the ring that repeats its first vertex, scanned with minAngle 14: its
\* two degenerate triples are recorded with angle 0, the 45 degree corner
\* after them is evaluated, and the next polygon is scanned too
C21_Witness ==
    /\ tool = "sliver"
    /\ minAngle = 14
    /\ Len(angleCalls) = 2
    /\ rows[1].feat = Geom(<< DupVertex >>)
    /\ Len(angleCalls[1]) = 4
    /\ Cardinality({ d \in DOMAIN dLines : dLines[d][2].fid = rows[1].fid
                                            /\ dLines[d][2].angle = 0 }) = 2
    /\ Len(angleCalls[2]) > 0

\* the geometry has parts, and no part has more than 2 distinct vertices
\* before its first null point
TooFewVertices(feat) ==
    /\ ~feat.isNone
    /\ partCount(feat) > 0
    /\ \A p \in DOMAIN feat.parts :
         Cardinality({ feat.parts[p][k] : k \in DOMAIN PairsOfPart(feat.parts[p]) }
                       \cup PartPoints(WalkPart(feat.parts[p]))) <= 2

\* a message names the polygon fid
MessageAbout(fid) == \E m \in DOMAIN msgs : \E k \in DOMAIN msgs[m].ids : msgs[m].ids[k] = fid

\* C22: for a polygon with at most 2 distinct vertices no angle is
\* evaluated and no segment is measured, the polygon contributes no defect
\* and no message, and the scan goes on.
C22_TooFewVerticesSkipped ==
    \A i \in DOMAIN rows :
      TooFewVertices(rows[i].feat) =>
        /\ tool = "sliver" =>
             /\ angleCalls[i] = << >>
             /\ \A d \in DOMAIN dLines : dLines[d][2].fid # rows[i].fid
        /\ tool = "vertex" =>
             /\ segCalls[i] = << >>
             /\ FlagsOf(rows[i].fid) = << >>
        /\ ~MessageAbout(rows[i].fid)

\* the part count of the polygon of row k itself (a null geometry has none)
OwnPartCount(k) == IF rows[k].feat.isNone THEN 0 ELSE partCount(rows[k].feat)

\* C23: the multipart flag of a statistics record is non-zero exactly when
\* the polygon of that record has more than one part, whatever the other
\* polygons of the layer are.
C23_MultipartFlagIsOwn ==
    tool = "vertex" =>
      \A k \in DOMAIN statsSink :
        (statsSink[k].MULTIPART # 0) <=> (OwnPartCount(k) > 1)

\* the defect written at position k of the sinks
WrittenDefect(k) == DictGet(dLines, DictKeys(dAngles)[k])

\* C24: every defect holds three consecutive points of the scanned list of
\* its polygon; the line record of a defect is those three points in that
\* order with the defect's polygon id and angle, the point record of the
\* same defect lies at the middle point, and both sinks receive every
\* defect once, in the same order.
C24_TripleKeptVerbatim ==
    tool = "sliver" =>
      /\ \A d \in DOMAIN dLines :
           \E i \in DOMAIN angleCalls :
             /\ rows[i].fid = dLines[d][2].fid
             /\ angleCalls[i] # << >>
             /\ \E j \in 1..(Len(ScannedList(i)) - 2) :
                  dLines[d][2].pts = << ScannedList(i)[j], ScannedList(i)[j + 1],
                                        ScannedList(i)[j + 2] >>
      /\ Len(lineSink) <= Len(dAngles)
      /\ Len(pointSink) <= Len(lineSink)
      /\ \A k \in DOMAIN lineSink :
           /\ lineSink[k].shape = WrittenDefect(k).pts
           /\ lineSink[k].POLYID = WrittenDefect(k).fid
           /\ lineSink[k].ANGLE = WrittenDefect(k).angle
      /\ \A k \in DOMAIN pointSink :
           /\ pointSink[k].shape = lineSink[k].shape[2]
           /\ pointSink[k].POLYID = lineSink[k].POLYID
           /\ pointSink[k].ANGLE = << ToString(lineSink[k].ANGLE), "deg" >>
      /\ (pc = "done" /\ bProcessed = "True") =>
           /\ Len(lineSink) = Len(dLines)
           /\ Len(pointSink) = Len(dLines)
           /\ \A d \in DOMAIN dLines :
                Cardinality({ k \in DOMAIN lineSink : DictKeys(dAngles)[k] = dLines[d][1] }) = 1

\* a finished run that wrote the defects of two polygons to both sinks
C24_Witness ==
    /\ tool = "sliver"
    /\ pc = "done"
    /\ bProcessed = "True"
    /\ Len(lineSink) >= 3
    /\ Len(pointSink) = Len(lineSink)
    /\ \E a, b \in DOMAIN lineSink : lineSink[a].POLYID # lineSink[b].POLYID
    /\ \E k \in DOMAIN pointSink : pointSink[k].shape # lineSink[k].shape[1]

\* the evaluated triple t is at or below the threshold
FlaggedCall(t) == GetAngleFromPoints(t, 0) <= minAngle

\* the defects of row i in the order their triples were evaluated
SliversIn(i) ==
    LET hit == SelectSeq(angleCalls[i], FlaggedCall)
    IN  [k \in DOMAIN hit |->
           [pts |-> hit[k], fid |-> rows[i].fid, angle |-> GetAngleFromPoints(hit[k], 0)]]

\* the defects of rows 1..n in discovery order
RECURSIVE SliversUpTo(_)
SliversUpTo(n) == IF n = 0 THEN << >> ELSE SliversUpTo(n - 1) \o SliversIn(n)

\* C25: the k-th defect discovered in the run is stored under key k: the
\* keys are 1, 2, 3, ... in discovery order with no gap and no reuse across
\* polygons, the defect dictionary and the angle dictionary have the same
\* keys, and iErr is the number of stored defects.
C25_KeysCountDiscoveries ==
    tool = "sliver" =>
      LET all == SliversUpTo(Len(angleCalls))
      IN  /\ Len(dLines) = Len(all)
          /\ \A k \in DOMAIN dLines : dLines[k] = << k, all[k] >>
          /\ DictKeys(dTest) = DictKeys(dLines)
          /\ \A k \in DOMAIN dTest : dTest[k][2] = dLines[k][2].angle
          /\ iErr = Len(dLines)

\* two polygons scanned, each with defects: the keys of the second one
\* continue those of the first
C25_Witness ==
    /\ tool = "sliver"
    /\ Len(angleCalls) = 2
    /\ iErr >= 4
    /\ dLines[1][2].fid = rows[1].fid
    /\ dLines[2][2].fid = rows[1].fid
    /\ dLines[iErr][1] = iErr
    /\ dLines[iErr][2].fid = rows[2].fid

\* ProcessLayer reported an exception of its own
InternalError ==
    \E m \in DOMAIN msgs :
      msgs[m].text \in { "UnboundLocalError", "TypeError", "ZeroDivisionError", "IndexError" }

\* C26: when the layer has no feature, ProcessLayer returns True, inserts
\* nothing in any sink and raises no internal error.
C26_ZeroFeaturesSucceed ==
    (iSelection = 0 /\ srUsed # << >> /\ pc = "done") =>
      /\ bProcessed = "True"
      /\ lineSink = << >> /\ pointSink = << >>
      /\ statsSink = << >> /\ flagSink = << >>
      /\ ~InternalError

\* the outcome of row k when it is the first row ProcessLayer reads
ScannedAlone(k) ==
    VertexRow(rows[k].fid, rows[k].feat, rows[k].area, rows[k].perimeter, minDist, theUnits,
              [iCnt |-> 0, dPoints |-> << >>, bHasMultiPart |-> FALSE, iPnts |-> 0,
               iSeg |-> << "n", 0 >>, iPartCnt |-> 0, statBound |-> FALSE, msgs |-> << >>])

\* C27: every statistics record is the record its polygon gets when it is
\* scanned on its own: nothing computed for an earlier polygon is written
\* into the record of a later one, null geometries included.
C27_RecordFromOwnPolygon ==
    tool = "vertex" =>
      \A k \in DOMAIN statsSink :
        /\ ScannedAlone(k).ret = "ok"
        /\ statsSink[k] = ScannedAlone(k).out[1]

\* C28: when ProcessLayer has returned True, the defect-point sink holds
\* every recorded segment defect exactly once: as many records as iCnt
\* counts, and the recorded defects polygon by polygon.
C28_NoDefectDiscarded ==
    (tool = "vertex" /\ pc = "done" /\ bProcessed = "True") =>
      /\ Len(flagSink) = iCnt
      /\ flagSink = DiscoveredUpTo(Len(segCalls))

=============================================================================
